---- MODULE Spec2Model ----
(***************************************************************************)
(* Signed-object pipeline of the Constellation metakit SDK (Rust package): *)
(* canonical bytes -> DataUpdate framing -> SHA-256 hash -> signing digest *)
(* -> ECDSA proof -> multi-proof verification.                              *)
(*                                                                         *)
(* Bytes and characters are integers (ASCII codes).  The cryptographic     *)
(* primitives of the external libraries (sha2, secp256k1) are modelled      *)
(* symbolically: a hash is determined by its preimage, a signature by the   *)
(* signing key, the signed digest and the form of its S component.          *)
(***************************************************************************)
EXTENDS Integers, Sequences, FiniteSets, TLC

(***************************************************************************)
(* Bounds of the model.                                                    *)
(***************************************************************************)
\* longest proof list a Signed object of the model carries
MaxProofs == 2
\* number of distinct valid private scalars 1..NumKeys (scalar 0 is invalid)
NumKeys == 2
\* longest byte string given to base58_encode
MaxBytes == 3

(***************************************************************************)
(* Generic helpers.                                                        *)
(***************************************************************************)
\* Option<T> as a sequence of length 0 or 1
None == << >>
Some(x) == << x >>

\* Result<T>: Ok(x) / Err(kind)
Ok(x) == [ok |-> TRUE, val |-> x, err |-> "none"]
Err(e, dflt) == [ok |-> FALSE, val |-> dflt, err |-> e]

\* the ? operator: r? followed by the rest of the function, F, on its value
Try(r, dflt, F(_)) == IF r.ok THEN F(r.val) ELSE Err(r.err, dflt)

\* usize -> decimal text (format!("{}", n))
RECURSIVE fmt_usize(_)
fmt_usize(n) ==
    IF n < 10 THEN << 48 + n >>
    ELSE fmt_usize(n \div 10) \o << 48 + (n % 10) >>

(***************************************************************************)
(* Structured values and the canonicalizer.                                *)
(* A value is a JSON object: its members in insertion order, each a key    *)
(* (one ASCII letter) and a number.  A negative number stands for a number  *)
(* that has no JSON representation (non-finite).                            *)
(***************************************************************************)
IsFinite(n) == n >= 0

Member(k, n) == [k |-> k, n |-> n]

ValA1 == << Member(97, 1) >>
ValBA == << Member(98, 1), Member(97, 1) >>
ValAB == << Member(97, 1), Member(98, 1) >>
ValBad == << Member(97, -1) >>

Values == { ValA1, ValBA, ValAB, ValBad }

\* members sorted by key (insertion sort, keys are unique within a value)
RECURSIVE InsertMember(_, _)
InsertMember(m, sorted) ==
    IF sorted = << >> THEN << m >>
    ELSE IF m.k <= Head(sorted).k THEN << m >> \o sorted
    ELSE << Head(sorted) >> \o InsertMember(m, Tail(sorted))

RECURSIVE SortMembers(_)
SortMembers(ms) ==
    IF ms = << >> THEN << >>
    ELSE InsertMember(Head(ms), SortMembers(Tail(ms)))

\* "k":n
MemberText(m) == << 34, m.k, 34, 58 >> \o fmt_usize(m.n)

RECURSIVE JoinMembers(_)
JoinMembers(ms) ==
    IF ms = << >> THEN << >>
    ELSE IF Len(ms) = 1 THEN MemberText(Head(ms))
    ELSE MemberText(Head(ms)) \o << 44 >> \o JoinMembers(Tail(ms))

\* canonical JSON: sorted keys, no whitespace; error when not representable
canonicalize_bytes(v) ==
    IF \E i \in 1..Len(v) : ~IsFinite(v[i].n)
    THEN Err("SerializationError", << >>)
    ELSE Ok(<< 123 >> \o JoinMembers(SortMembers(v)) \o << 125 >>)

(***************************************************************************)
(* Binary encoder.                                                         *)
(***************************************************************************)
\* "\x19Constellation Signed Data:\n"
CONSTELLATION_PREFIX ==
    << 25, 67, 111, 110, 115, 116, 101, 108, 108, 97, 116, 105, 111, 110, 32,
       83, 105, 103, 110, 101, 100, 32, 68, 97, 116, 97, 58, 10 >>

\* character of the standard base64 alphabet for a 6-bit group
B64Char(i) ==
    IF i < 26 THEN 65 + i
    ELSE IF i < 52 THEN 97 + (i - 26)
    ELSE IF i < 62 THEN 48 + (i - 52)
    ELSE IF i = 62 THEN 43
    ELSE 47

\* base64::engine::general_purpose::STANDARD.encode (with '=' padding)
RECURSIVE base64_encode(_)
base64_encode(b) ==
    IF b = << >> THEN << >>
    ELSE IF Len(b) = 1 THEN
        << B64Char(b[1] \div 4), B64Char((b[1] % 4) * 16), 61, 61 >>
    ELSE IF Len(b) = 2 THEN
        << B64Char(b[1] \div 4),
           B64Char((b[1] % 4) * 16 + b[2] \div 16),
           B64Char((b[2] % 16) * 4), 61 >>
    ELSE
        << B64Char(b[1] \div 4),
           B64Char((b[1] % 4) * 16 + b[2] \div 16),
           B64Char((b[2] % 16) * 4 + b[3] \div 64),
           B64Char(b[3] % 64) >>
        \o base64_encode(SubSeq(b, 4, Len(b)))

\* variant: the DataUpdate framing is left out
to_bytes_unframed(data, is_data_update) == canonicalize_bytes(data)

\* variant: the length line is the length of the canonical bytes
to_bytes_raw_length(data, is_data_update) ==
    Try(canonicalize_bytes(data), << >>, LAMBDA canonical_json :
        IF is_data_update
        THEN Ok(CONSTELLATION_PREFIX
                \o fmt_usize(Len(canonical_json)) \o << 10 >>
                \o base64_encode(canonical_json))
        ELSE Ok(canonical_json))

to_bytes(data, is_data_update) ==
    Try(canonicalize_bytes(data), << >>, LAMBDA canonical_json :
        IF is_data_update
        THEN Ok(CONSTELLATION_PREFIX
                \o fmt_usize(Len(base64_encode(canonical_json))) \o << 10 >>
                \o base64_encode(canonical_json))
        ELSE Ok(canonical_json))

\* to_bytes is evaluated once per value and flag
ToBytesOf == [v \in Values, f \in BOOLEAN |-> to_bytes(v, f)]

(***************************************************************************)
(* Strings and byte strings.                                               *)
(* A string or byte string is either literal (kind "lit", its characters   *)
(* or bytes in data) or the encoding of a cryptographic object, which is    *)
(* determined by the object:                                                *)
(*   strings : "sk"      64 hex chars of the private scalar key             *)
(*             "pkid"    128 hex chars, X||Y of the public point of key     *)
(*             "pkfull"  130 hex chars, "04" followed by X||Y               *)
(*             "pkcomp"  66 hex chars, the compressed public point          *)
(*             "hexhash" 64 hex chars of SHA-256(data)                      *)
(*             "der"     hex of the DER signature made with key over the    *)
(*                       digest of the string (pre, data); hi = high S      *)
(*   bytes   : "scalar", "xy", "point65", "point33", "sha256", "dersig",    *)
(*             the bytes those strings are the hex text of.                 *)
(* A literal string of the model is never the hex text of a key, a point,   *)
(* a hash or a signature.                                                   *)
(***************************************************************************)
Blob(kind, key, hi, pre, data) ==
    [kind |-> kind, key |-> key, hi |-> hi, pre |-> pre, data |-> data]

Lit(chars) == Blob("lit", 0, FALSE, "", chars)
NoBlob == Lit(<< >>)

StrLen(s) ==
    CASE s.kind = "lit" -> Len(s.data)
      [] s.kind = "sk" -> 64
      [] s.kind = "pkid" -> 128
      [] s.kind = "pkfull" -> 130
      [] s.kind = "pkcomp" -> 66
      [] s.kind = "hexhash" -> 64
      [] s.kind = "der" -> 140

IsHexDigit(c) ==
    \/ c \in 48..57
    \/ c \in 65..70
    \/ c \in 97..102

HexVal(c) ==
    IF c \in 48..57 THEN c - 48
    ELSE IF c \in 65..70 THEN c - 55
    ELSE c - 87

HexPairs(cs) == [i \in 1..(Len(cs) \div 2) |->
                    16 * HexVal(cs[2 * i - 1]) + HexVal(cs[2 * i])]

HexDigit(n) == IF n < 10 THEN 48 + n ELSE 87 + n

\* hex::decode
hex_decode(s) ==
    CASE s.kind = "lit" ->
            IF Len(s.data) % 2 # 0 THEN Err("HexError", NoBlob)
            ELSE IF \E i \in 1..Len(s.data) : ~IsHexDigit(s.data[i])
            THEN Err("HexError", NoBlob)
            ELSE Ok(Lit(HexPairs(s.data)))
      [] s.kind = "sk" -> Ok([s EXCEPT !.kind = "scalar"])
      [] s.kind = "pkid" -> Ok([s EXCEPT !.kind = "xy"])
      [] s.kind = "pkfull" -> Ok([s EXCEPT !.kind = "point65"])
      [] s.kind = "pkcomp" -> Ok([s EXCEPT !.kind = "point33"])
      [] s.kind = "hexhash" -> Ok([s EXCEPT !.kind = "sha256"])
      [] s.kind = "der" -> Ok([s EXCEPT !.kind = "dersig"])

\* hex::encode (lowercase)
hex_encode(b) ==
    CASE b.kind = "lit" ->
            Lit([i \in 1..(2 * Len(b.data)) |->
                    IF i % 2 = 1 THEN HexDigit(b.data[(i + 1) \div 2] \div 16)
                    ELSE HexDigit(b.data[i \div 2] % 16)])
      [] b.kind = "scalar" -> [b EXCEPT !.kind = "sk"]
      [] b.kind = "xy" -> [b EXCEPT !.kind = "pkid"]
      [] b.kind = "point65" -> [b EXCEPT !.kind = "pkfull"]
      [] b.kind = "point33" -> [b EXCEPT !.kind = "pkcomp"]
      [] b.kind = "sha256" -> [b EXCEPT !.kind = "hexhash"]
      [] b.kind = "dersig" -> [b EXCEPT !.kind = "der"]

(***************************************************************************)
(* secp256k1 and sha2 (external libraries).                                *)
(***************************************************************************)
\* SHA-256 of a byte sequence
Sha256(data) == Blob("sha256", 0, FALSE, "", data)

\* first 32 bytes of SHA-512 of the bytes of a text: determined by the text
Sha512Trunc32(text) == [pre |-> text.kind, data |-> text.data]
NoDigest == [pre |-> "", data |-> << >>]

\* SecretKey::from_slice: 32 bytes, a scalar in 1..n-1
SecretKey_from_slice(b) ==
    IF b.kind = "scalar" /\ b.key \in 1..NumKeys THEN Ok(b.key)
    ELSE Err("Secp256k1Error", 0)

\* PublicKey::from_slice: a 65-byte uncompressed or 33-byte compressed point
PublicKey_from_slice(b) ==
    IF b.kind \in {"point65", "point33"} /\ b.key \in 1..NumKeys THEN Ok(b.key)
    ELSE Err("Secp256k1Error", 0)

\* the public point of a secret key is named by the key
PublicKey_from_secret_key(sk) == sk
serialize_uncompressed(pk) == Blob("point65", pk, FALSE, "", << >>)
serialize(pk) == Blob("point33", pk, FALSE, "", << >>)

Sig(key, hi, digest) ==
    [key |-> key, hi |-> hi, pre |-> digest.pre, data |-> digest.data]
NoSig == Sig(0, FALSE, NoDigest)

\* sign_ecdsa: deterministic (RFC 6979), low-S
sign_ecdsa(digest, sk) == Sig(sk, FALSE, digest)

serialize_der(sig) == Blob("dersig", sig.key, sig.hi, sig.pre, sig.data)

\* Signature::from_der
Signature_from_der(b) ==
    IF b.kind = "dersig"
    THEN Ok(Sig(b.key, b.hi, [pre |-> b.pre, data |-> b.data]))
    ELSE Err("Secp256k1Error", NoSig)

normalize_s(sig) == [sig EXCEPT !.hi = FALSE]

\* secp.verify_ecdsa: accepts only a low-S signature made with the secret key
\* of this public key over this message
verify_ecdsa(message, sig, pk) ==
    /\ ~sig.hi
    /\ sig.key = pk
    /\ sig.pre = message.pre
    /\ sig.data = message.data

(***************************************************************************)
(* Digest engine (hash.rs).                                                *)
(***************************************************************************)
hash_bytes(data) ==
    [value |-> hex_encode(Sha256(data)), bytes |-> Sha256(data)]

compute_digest_from_bytes(data) == Sha512Trunc32(hex_encode(Sha256(data)))

\* variant: SHA-512 runs over the 32 bytes the hex text stands for
compute_digest_from_hash_raw(hash_hex) ==
    Sha512Trunc32(hex_decode(hash_hex).val)

compute_digest_from_hash(hash_hex) == Sha512Trunc32(hash_hex)

\* variant: the digest is taken over the canonical bytes, whatever the flag
compute_digest_plain(data, is_data_update) ==
    Try(ToBytesOf[data, FALSE], NoDigest, LAMBDA bytes :
        Ok(compute_digest_from_bytes(bytes)))

compute_digest(data, is_data_update) ==
    Try(ToBytesOf[data, is_data_update], NoDigest, LAMBDA bytes :
        Ok(compute_digest_from_bytes(bytes)))

(***************************************************************************)
(* Wallet / key manager (wallet.rs).                                       *)
(***************************************************************************)
\* variant: the "04" marker is not put back
normalize_public_key_asis(public_key) == public_key

normalize_public_key(public_key) ==
    IF StrLen(public_key) = 128
    THEN IF public_key.kind = "pkid" THEN [public_key EXCEPT !.kind = "pkfull"]
         ELSE [public_key EXCEPT !.data = << 48, 52 >> \o @]
    ELSE public_key

starts_with_04(s) ==
    \/ s.kind = "pkfull"
    \/ s.kind = "lit" /\ Len(s.data) >= 2 /\ SubSeq(s.data, 1, 2) = << 48, 52 >>

normalize_public_key_to_id(public_key) ==
    IF StrLen(public_key) = 130 /\ starts_with_04(public_key)
    THEN IF public_key.kind = "pkfull" THEN [public_key EXCEPT !.kind = "pkid"]
         ELSE [public_key EXCEPT !.data = SubSeq(@, 3, Len(@))]
    ELSE public_key

get_public_key_hex(private_key, compressed) ==
    Try(hex_decode(private_key), NoBlob, LAMBDA private_key_bytes :
    Try(SecretKey_from_slice(private_key_bytes), NoBlob, LAMBDA secret_key :
        IF compressed
        THEN Ok(hex_encode(serialize(PublicKey_from_secret_key(secret_key))))
        ELSE Ok(hex_encode(
                 serialize_uncompressed(PublicKey_from_secret_key(secret_key))))))

get_public_key_id(private_key) ==
    Try(get_public_key_hex(private_key, FALSE), NoBlob, LAMBDA public_key :
        Ok(normalize_public_key_to_id(public_key)))

(***************************************************************************)
(* Signer (sign.rs).                                                       *)
(***************************************************************************)
SignatureProof(id, signature) == [id |-> id, signature |-> signature]
NoProof == SignatureProof(NoBlob, NoBlob)

sign_with(value, private_key, is_data_update) ==
    Try(compute_digest(value, is_data_update), NoProof, LAMBDA digest :
    Try(hex_decode(private_key), NoProof, LAMBDA private_key_bytes :
    Try(SecretKey_from_slice(private_key_bytes), NoProof, LAMBDA secret_key :
    Try(get_public_key_id(private_key), NoProof, LAMBDA id :
        Ok(SignatureProof(
              id, hex_encode(serialize_der(sign_ecdsa(digest, secret_key)))))))))

sign(value, private_key) == sign_with(value, private_key, FALSE)

sign_data_update(value, private_key) == sign_with(value, private_key, TRUE)

(***************************************************************************)
(* Verifier (verify.rs).                                                   *)
(***************************************************************************)
\* variant: a signature that parses is reported valid
verify_hash_parse_only(hash_hex, signature, public_key_id) ==
    Try(hex_decode(normalize_public_key(public_key_id)), FALSE,
        LAMBDA public_key_bytes :
    Try(PublicKey_from_slice(public_key_bytes), FALSE, LAMBDA public_key :
    Try(hex_decode(signature), FALSE, LAMBDA signature_bytes :
    Try(Signature_from_der(signature_bytes), FALSE, LAMBDA sig :
        Ok(TRUE)))))

\* variant: the signature is checked as it was parsed, not normalized
verify_hash_strict(hash_hex, signature, public_key_id) ==
    Try(hex_decode(normalize_public_key(public_key_id)), FALSE,
        LAMBDA public_key_bytes :
    Try(PublicKey_from_slice(public_key_bytes), FALSE, LAMBDA public_key :
    Try(hex_decode(signature), FALSE, LAMBDA signature_bytes :
    Try(Signature_from_der(signature_bytes), FALSE, LAMBDA sig :
        Ok(verify_ecdsa(compute_digest_from_hash(hash_hex), sig,
                        public_key))))))

verify_hash(hash_hex, signature, public_key_id) ==
    Try(hex_decode(normalize_public_key(public_key_id)), FALSE,
        LAMBDA public_key_bytes :
    Try(PublicKey_from_slice(public_key_bytes), FALSE, LAMBDA public_key :
    Try(hex_decode(signature), FALSE, LAMBDA signature_bytes :
    Try(Signature_from_der(signature_bytes), FALSE, LAMBDA sig :
        Ok(verify_ecdsa(compute_digest_from_hash(hash_hex), normalize_s(sig),
                        public_key))))))

Signed(value, proofs) == [value |-> value, proofs |-> proofs]
NoSigned == Signed(<< >>, << >>)

VerificationResult(is_valid, valid_proofs, invalid_proofs) ==
    [is_valid |-> is_valid,
     valid_proofs |-> valid_proofs,
     invalid_proofs |-> invalid_proofs]

\* the match on the result of verify_hash for one proof
IsOkTrue(r) == r.ok /\ r.val
IsOkFalse(r) == r.ok /\ ~r.val

\* variant: a proof whose check returns an error goes to neither vector
RECURSIVE verify_loop_drop_errors(_, _, _, _, _)
verify_loop_drop_errors(hash, proofs, i, valid_proofs, invalid_proofs) ==
    IF i > Len(proofs)
    THEN [valid_proofs |-> valid_proofs, invalid_proofs |-> invalid_proofs]
    ELSE IF IsOkTrue(verify_hash(hash.value, proofs[i].signature, proofs[i].id))
    THEN verify_loop_drop_errors(hash, proofs, i + 1,
             Append(valid_proofs, proofs[i]), invalid_proofs)
    ELSE IF IsOkFalse(verify_hash(hash.value, proofs[i].signature, proofs[i].id))
    THEN verify_loop_drop_errors(hash, proofs, i + 1,
             valid_proofs, Append(invalid_proofs, proofs[i]))
    ELSE verify_loop_drop_errors(hash, proofs, i + 1,
             valid_proofs, invalid_proofs)

\* variant: the loop ends at the first proof whose check returns an error
RECURSIVE verify_loop_stop_at_error(_, _, _, _, _)
verify_loop_stop_at_error(hash, proofs, i, valid_proofs, invalid_proofs) ==
    IF i > Len(proofs)
    THEN [valid_proofs |-> valid_proofs, invalid_proofs |-> invalid_proofs]
    ELSE IF IsOkTrue(verify_hash(hash.value, proofs[i].signature, proofs[i].id))
    THEN verify_loop_stop_at_error(hash, proofs, i + 1,
             Append(valid_proofs, proofs[i]), invalid_proofs)
    ELSE IF IsOkFalse(verify_hash(hash.value, proofs[i].signature, proofs[i].id))
    THEN verify_loop_stop_at_error(hash, proofs, i + 1,
             valid_proofs, Append(invalid_proofs, proofs[i]))
    ELSE [valid_proofs |-> valid_proofs,
          invalid_proofs |-> Append(invalid_proofs, proofs[i])]

\* the loop over signed.proofs, from proof i on: the two vectors it fills
RECURSIVE verify_loop(_, _, _, _, _)
verify_loop(hash, proofs, i, valid_proofs, invalid_proofs) ==
    IF i > Len(proofs)
    THEN [valid_proofs |-> valid_proofs, invalid_proofs |-> invalid_proofs]
    ELSE IF IsOkTrue(verify_hash(hash.value, proofs[i].signature, proofs[i].id))
    THEN verify_loop(hash, proofs, i + 1,
                     Append(valid_proofs, proofs[i]), invalid_proofs)
    ELSE verify_loop(hash, proofs, i + 1,
                     valid_proofs, Append(invalid_proofs, proofs[i]))

\* variant: is_valid does not ask for a valid proof
verify_result_only_no_invalid(vecs) ==
    VerificationResult(vecs.invalid_proofs = << >>,
                       vecs.valid_proofs, vecs.invalid_proofs)

\* the VerificationResult built from the two vectors
verify_result(vecs) ==
    VerificationResult(
        vecs.invalid_proofs = << >> /\ vecs.valid_proofs # << >>,
        vecs.valid_proofs, vecs.invalid_proofs)

\* variant: the Err arm of the match on to_bytes returns no proofs at all
verify_err_empty(signed_obj, is_data_update) ==
    Try(ToBytesOf[signed_obj.value, is_data_update],
        VerificationResult(FALSE, << >>, << >>),
        LAMBDA bytes :
            Ok(verify_result(verify_loop(hash_bytes(bytes), signed_obj.proofs,
                                         1, << >>, << >>)))).val

\* the Err arm of the match on to_bytes returns all proofs as invalid
verify(signed_obj, is_data_update) ==
    Try(ToBytesOf[signed_obj.value, is_data_update],
        VerificationResult(FALSE, << >>, signed_obj.proofs),
        LAMBDA bytes :
            Ok(verify_result(verify_loop(hash_bytes(bytes), signed_obj.proofs,
                                         1, << >>, << >>)))).val

(***************************************************************************)
(* Signed-object manager (signed_object.rs).                               *)
(***************************************************************************)
\* the proof of one key: sign_data_update or sign, as the flag says
sign_for(value, private_key, is_data_update) ==
    IF is_data_update THEN sign_data_update(value, private_key)
    ELSE sign(value, private_key)

create_signed_object(value, private_key, is_data_update) ==
    Try(sign_for(value, private_key, is_data_update), NoSigned, LAMBDA proof :
        Ok(Signed(value, << proof >>)))

\* variant: a key that has signed already adds no second proof
add_signature_dedup(signed_obj, private_key, is_data_update) ==
    Try(sign_for(signed_obj.value, private_key, is_data_update), NoSigned,
        LAMBDA new_proof :
            IF \E i \in 1..Len(signed_obj.proofs) :
                  signed_obj.proofs[i].id = new_proof.id
            THEN Ok(signed_obj)
            ELSE Ok(Signed(signed_obj.value,
                           Append(signed_obj.proofs, new_proof))))

add_signature(signed_obj, private_key, is_data_update) ==
    Try(sign_for(signed_obj.value, private_key, is_data_update), NoSigned,
        LAMBDA new_proof :
            Ok(Signed(signed_obj.value, Append(signed_obj.proofs, new_proof))))

\* acc with the proof of result p appended, when p is Ok
Pushed(acc, p) == IF p.ok THEN Append(acc, p.val) ELSE acc

\* variant: keys that fail to sign are skipped
RECURSIVE collect_proofs_skip_failed(_, _, _, _)
collect_proofs_skip_failed(value, private_keys, is_data_update, acc) ==
    IF private_keys = << >> THEN Ok(acc)
    ELSE collect_proofs_skip_failed(value, Tail(private_keys), is_data_update,
             Pushed(acc, sign_for(value, Head(private_keys), is_data_update)))

\* .map(sign).collect::<Result<Vec<_>>>(): the first error, else all proofs
RECURSIVE collect_proofs(_, _, _, _)
collect_proofs(value, private_keys, is_data_update, acc) ==
    IF private_keys = << >> THEN Ok(acc)
    ELSE Try(sign_for(value, Head(private_keys), is_data_update), << >>,
             LAMBDA proof :
                 collect_proofs(value, Tail(private_keys), is_data_update,
                                Append(acc, proof)))

\* variant: every key signs the plain digest, whatever the flag
batch_sign_plain(value, private_keys, is_data_update) ==
    IF private_keys = << >> THEN Err("NoPrivateKeys", NoSigned)
    ELSE Try(collect_proofs(value, private_keys, FALSE, << >>), NoSigned,
             LAMBDA proofs : Ok(Signed(value, proofs)))

\* variant: the key list is not checked for emptiness
batch_sign_unchecked(value, private_keys, is_data_update) ==
    Try(collect_proofs(value, private_keys, is_data_update, << >>), NoSigned,
        LAMBDA proofs : Ok(Signed(value, proofs)))

batch_sign(value, private_keys, is_data_update) ==
    IF private_keys = << >> THEN Err("NoPrivateKeys", NoSigned)
    ELSE Try(collect_proofs(value, private_keys, is_data_update, << >>),
             NoSigned, LAMBDA proofs : Ok(Signed(value, proofs)))

(***************************************************************************)
(* Codec (codec.rs) and the libraries it calls.                            *)
(***************************************************************************)
\* .map_err(|_| kind)
MapErr(r, e) == IF r.ok THEN r ELSE Err(e, r.val)

\* String::from_utf8: the bytes of the model are ASCII or 255, and 255 occurs
\* in no UTF-8 text
String_from_utf8(data) ==
    IF \A i \in 1..Len(data) : data[i] < 128 THEN Ok(data)
    ELSE Err("FromUtf8Error", << >>)

\* str::starts_with
starts_with(s, p) == Len(s) >= Len(p) /\ SubSeq(s, 1, Len(p)) = p

\* position of the first '\n' of s at or after i, 0 when there is none
RECURSIVE find_newline(_, _)
find_newline(s, i) ==
    IF i > Len(s) THEN 0
    ELSE IF s[i] = 10 THEN i
    ELSE find_newline(s, i + 1)

\* s.splitn(2, '\n').collect()
splitn2_at(s, i) ==
    IF i = 0 THEN << s >>
    ELSE << SubSeq(s, 1, i - 1), SubSeq(s, i + 1, Len(s)) >>

splitn2(s) == splitn2_at(s, find_newline(s, 1))

IsDigit(c) == c \in 48..57

\* value of a run of decimal digits
RECURSIVE dec_value(_, _)
dec_value(ds, acc) ==
    IF ds = << >> THEN acc
    ELSE dec_value(Tail(ds), 10 * acc + (Head(ds) - 48))

RECURSIVE strip_zeros(_)
strip_zeros(ds) ==
    IF Len(ds) > 1 /\ Head(ds) = 48 THEN strip_zeros(Tail(ds)) ELSE ds

\* the digits of a text that has an optional leading '+'
unsigned_digits(s) == IF s # << >> /\ s[1] = 43 THEN Tail(s) ELSE s

\* <usize as FromStr>::from_str on the digits: at least one, nothing but
\* digits, a value that fits 64 bits (a text of more than 20 significant
\* digits does not; the other length texts of the model have at most 9)
parse_digits(ds) ==
    IF ds = << >> THEN Err("ParseIntError", 0)
    ELSE IF \E i \in 1..Len(ds) : ~IsDigit(ds[i]) THEN Err("ParseIntError", 0)
    ELSE IF Len(strip_zeros(ds)) > 20 THEN Err("ParseIntError", 0)
    ELSE Ok(dec_value(strip_zeros(ds), 0))

parse_usize(s) == parse_digits(unsigned_digits(s))

\* 6-bit group of a character of the standard base64 alphabet, else -1
B64Val(c) ==
    IF c \in 65..90 THEN c - 65
    ELSE IF c \in 97..122 THEN c - 71
    ELSE IF c \in 48..57 THEN c + 4
    ELSE IF c = 43 THEN 62
    ELSE IF c = 47 THEN 63
    ELSE -1

InB64(c) == B64Val(c) >= 0

\* variant: an engine without padding, '=' is no character of a group
decode_quad_no_pad(q, last) ==
    IF InB64(q[1]) /\ InB64(q[2]) /\ InB64(q[3]) /\ InB64(q[4])
    THEN Ok(<< B64Val(q[1]) * 4 + B64Val(q[2]) \div 16,
               (B64Val(q[2]) % 16) * 16 + B64Val(q[3]) \div 4,
               (B64Val(q[3]) % 4) * 64 + B64Val(q[4]) >>)
    ELSE Err("DecodeError", << >>)

\* the bytes of one group of four characters; padding only in the last
\* group, canonical (the unused bits are zero)
decode_quad(q, last) ==
    IF InB64(q[1]) /\ InB64(q[2]) /\ InB64(q[3]) /\ InB64(q[4])
    THEN Ok(<< B64Val(q[1]) * 4 + B64Val(q[2]) \div 16,
               (B64Val(q[2]) % 16) * 16 + B64Val(q[3]) \div 4,
               (B64Val(q[3]) % 4) * 64 + B64Val(q[4]) >>)
    ELSE IF last /\ InB64(q[1]) /\ InB64(q[2]) /\ InB64(q[3]) /\ q[4] = 61
            /\ B64Val(q[3]) % 4 = 0
    THEN Ok(<< B64Val(q[1]) * 4 + B64Val(q[2]) \div 16,
               (B64Val(q[2]) % 16) * 16 + B64Val(q[3]) \div 4 >>)
    ELSE IF last /\ InB64(q[1]) /\ InB64(q[2]) /\ q[3] = 61 /\ q[4] = 61
            /\ B64Val(q[2]) % 16 = 0
    THEN Ok(<< B64Val(q[1]) * 4 + B64Val(q[2]) \div 16 >>)
    ELSE Err("DecodeError", << >>)

RECURSIVE decode_quads(_, _)
decode_quads(s, acc) ==
    IF s = << >> THEN Ok(acc)
    ELSE Try(decode_quad(SubSeq(s, 1, 4), Len(s) = 4), << >>, LAMBDA bytes :
             decode_quads(SubSeq(s, 5, Len(s)), acc \o bytes))

\* base64::engine::general_purpose::STANDARD.decode: padding is required
base64_decode(s) ==
    IF Len(s) % 4 # 0 THEN Err("DecodeError", << >>)
    ELSE decode_quads(s, << >>)

\* end of the run of digits of b that starts at i (i - 1 when there is none)
RECURSIVE digits_end(_, _)
digits_end(b, i) ==
    IF i <= Len(b) /\ IsDigit(b[i]) THEN digits_end(b, i + 1) ELSE i - 1

\* a JSON number of the model starts at i and ends at j: digits, no leading 0
IsNumberAt(b, i, j) == j >= i /\ (b[i] # 48 \/ j = i)

\* "k": starts at i, with a key of one lowercase letter
IsKeyAt(b, i) ==
    /\ i + 3 <= Len(b)
    /\ b[i] = 34
    /\ b[i + 1] \in 97..122
    /\ b[i + 2] = 34
    /\ b[i + 3] = 58

\* a map keeps the last value of a repeated key
RECURSIVE put_member(_, _)
put_member(ms, m) ==
    IF ms = << >> THEN << m >>
    ELSE IF Head(ms).k = m.k THEN << m >> \o Tail(ms)
    ELSE << Head(ms) >> \o put_member(Tail(ms), m)

\* the members of an object from position i on, up to the closing brace,
\* which ends the text
RECURSIVE parse_members(_, _, _)
parse_members(b, i, acc) ==
    IF ~IsKeyAt(b, i) THEN Err("JsonError", << >>)
    ELSE IF ~IsNumberAt(b, i + 4, digits_end(b, i + 4))
    THEN Err("JsonError", << >>)
    ELSE IF digits_end(b, i + 4) + 1 > Len(b) THEN Err("JsonError", << >>)
    ELSE IF b[digits_end(b, i + 4) + 1] = 125
    THEN IF digits_end(b, i + 4) + 1 = Len(b)
         THEN Ok(put_member(acc,
                    Member(b[i + 1],
                           dec_value(SubSeq(b, i + 4, digits_end(b, i + 4)), 0))))
         ELSE Err("JsonError", << >>)
    ELSE IF b[digits_end(b, i + 4) + 1] = 44
    THEN parse_members(b, digits_end(b, i + 4) + 2,
             put_member(acc,
                 Member(b[i + 1],
                        dec_value(SubSeq(b, i + 4, digits_end(b, i + 4)), 0))))
    ELSE Err("JsonError", << >>)

\* serde_json::from_slice::<T>, T the values of the model: an object whose
\* members are numbers, written without whitespace
serde_json_from_slice(b) ==
    IF Len(b) < 2 \/ b[1] # 123 THEN Err("JsonError", << >>)
    ELSE IF b = << 123, 125 >> THEN Ok(<< >>)
    ELSE parse_members(b, 2, << >>)

\* impl From<serde_json::Error> for SdkError
SdkError_from_json(r) == MapErr(r, "SerializationError")

\* variant: a length line that does not parse counts as 0
decode_rest_lenient(parts) ==
    IF Len(parts) # 2
    THEN Err("SerializationError", << >>)
    ELSE Try(MapErr(base64_decode(parts[2]), "SerializationError"), << >>,
             LAMBDA decoded_bytes :
                 SdkError_from_json(serde_json_from_slice(decoded_bytes)))

\* variant: the length line must be the length of the body
decode_rest_checked(parts) ==
    IF Len(parts) # 2
    THEN Err("SerializationError", << >>)
    ELSE Try(MapErr(parse_usize(parts[1]), "SerializationError"), << >>,
             LAMBDA length :
         IF length # Len(parts[2]) THEN Err("SerializationError", << >>)
         ELSE
         Try(MapErr(base64_decode(parts[2]), "SerializationError"), << >>,
             LAMBDA decoded_bytes :
                 SdkError_from_json(serde_json_from_slice(decoded_bytes))))

\* decode_data_update from the split of the rest on
decode_rest(parts) ==
    IF Len(parts) # 2
    THEN Err("SerializationError", << >>)
    ELSE Try(MapErr(parse_usize(parts[1]), "SerializationError"), << >>,
             LAMBDA length :
         Try(MapErr(base64_decode(parts[2]), "SerializationError"), << >>,
             LAMBDA decoded_bytes :
                 SdkError_from_json(serde_json_from_slice(decoded_bytes))))

decode_data_update(data) ==
    Try(MapErr(String_from_utf8(data), "SerializationError"), << >>, LAMBDA s :
        IF ~starts_with(s, CONSTELLATION_PREFIX)
        THEN Err("SerializationError", << >>)
        ELSE decode_rest(splitn2(SubSeq(s, Len(CONSTELLATION_PREFIX) + 1,
                                        Len(s)))))

\* encode_data_update(data) = to_bytes(data, true)
encode_data_update(data) == to_bytes(data, TRUE)

(***************************************************************************)
(* Key pairs and addresses (wallet.rs).                                    *)
(***************************************************************************)
\* "123456789ABCDEFGHJKLMNPQRSTUVWXYZabcdefghijkmnopqrstuvwxyz"
BASE58_ALPHABET ==
    << 49, 50, 51, 52, 53, 54, 55, 56, 57, 65, 66, 67,
       68, 69, 70, 71, 72, 74, 75, 76, 77, 78, 80, 81,
       82, 83, 84, 85, 86, 87, 88, 89, 90, 97, 98, 99,
       100, 101, 102, 103, 104, 105, 106, 107, 109, 110, 111, 112,
       113, 114, 115, 116, 117, 118, 119, 120, 121, 122 >>

\* data.iter().take_while(|&&b| b == 0).count()
RECURSIVE leading_zeros(_)
leading_zeros(data) ==
    IF data # << >> /\ Head(data) = 0 THEN 1 + leading_zeros(Tail(data))
    ELSE 0

\* while carry > 0 { num.push(carry % 58); carry /= 58 }
RECURSIVE push_carry(_)
push_carry(carry) ==
    IF carry = 0 THEN << >>
    ELSE << carry % 58 >> \o push_carry(carry \div 58)

\* one byte taken into num (base-58 digits, least significant first):
\* carry += digit << 8; digit = carry % 58; carry /= 58, then the pushes
RECURSIVE add_byte(_, _)
add_byte(num, carry) ==
    IF num = << >> THEN push_carry(carry)
    ELSE << (carry + Head(num) * 256) % 58 >>
         \o add_byte(Tail(num), (carry + Head(num) * 256) \div 58)

\* the loop over the bytes of data
RECURSIVE base58_digits(_, _)
base58_digits(data, num) ==
    IF data = << >> THEN num
    ELSE base58_digits(Tail(data), add_byte(num, Head(data)))

\* the digits of num, most significant first, as characters
base58_chars(num) ==
    [i \in 1..Len(num) |-> BASE58_ALPHABET[num[Len(num) + 1 - i] + 1]]

\* variant: leading zero bytes leave no trace in the text
base58_encode_no_zeros(data) ==
    IF data = << >> THEN << >>
    ELSE base58_chars(base58_digits(data, << >>))

base58_encode(data) ==
    IF data = << >> THEN << >>
    ELSE [i \in 1..leading_zeros(data) |-> 49]
         \o base58_chars(base58_digits(data, << >>))

KeyPair(private_key, public_key, address) ==
    [private_key |-> private_key,
     public_key |-> public_key,
     address |-> address]

\* format!("DAG{}", base58_encode(&hash)): the text is determined by the hash
DagAddress(hash) == [dag |-> << 68, 65, 71 >>, base58_of |-> hash]

NoKeyPair == KeyPair(NoBlob, NoBlob, DagAddress(NoBlob))

\* hex::decode(..).unwrap_or_default()
unwrap_or_default(r) == IF r.ok THEN r.val ELSE NoBlob

\* variant: a key that is not hex is hashed as the text it is
get_address_of_text(public_key) ==
    DagAddress(Sha256(
        IF hex_decode(normalize_public_key(public_key)).ok
        THEN hex_decode(normalize_public_key(public_key)).val
        ELSE normalize_public_key(public_key)))

get_address(public_key) ==
    DagAddress(Sha256(unwrap_or_default(
        hex_decode(normalize_public_key(public_key)))))

\* the characters of a string are all ASCII hex digits
all_hexdigit(s) ==
    IF s.kind = "lit" THEN \A i \in 1..Len(s.data) : IsHexDigit(s.data[i])
    ELSE TRUE

is_valid_private_key(private_key) ==
    IF StrLen(private_key) # 64 THEN FALSE
    ELSE all_hexdigit(private_key)

\* generate_key_pair when the random generator draws the scalar sk
generate_key_pair(sk) ==
    KeyPair(hex_encode(Blob("scalar", sk, FALSE, "", << >>)),
            hex_encode(serialize_uncompressed(PublicKey_from_secret_key(sk))),
            get_address(hex_encode(
                serialize_uncompressed(PublicKey_from_secret_key(sk)))))

\* variant: the format of the private key is not checked first
key_pair_from_private_key_unchecked(private_key) ==
    Try(hex_decode(private_key), NoKeyPair, LAMBDA private_key_bytes :
    Try(SecretKey_from_slice(private_key_bytes), NoKeyPair, LAMBDA secret_key :
        Ok(KeyPair(
              private_key,
              hex_encode(serialize_uncompressed(
                  PublicKey_from_secret_key(secret_key))),
              get_address(hex_encode(serialize_uncompressed(
                  PublicKey_from_secret_key(secret_key))))))))

key_pair_from_private_key(private_key) ==
    IF ~is_valid_private_key(private_key)
    THEN Err("InvalidPrivateKey", NoKeyPair)
    ELSE
    Try(hex_decode(private_key), NoKeyPair, LAMBDA private_key_bytes :
    Try(SecretKey_from_slice(private_key_bytes), NoKeyPair, LAMBDA secret_key :
        Ok(KeyPair(
              private_key,
              hex_encode(serialize_uncompressed(
                  PublicKey_from_secret_key(secret_key))),
              get_address(hex_encode(serialize_uncompressed(
                  PublicKey_from_secret_key(secret_key))))))))

(***************************************************************************)
(* Network clients (network/client.rs, currency_l1_client.rs,              *)
(* data_l1_client.rs).  The remote node and the HTTP library are the        *)
(* environment: a request ends in a transport failure or in a response      *)
(* with a status code and a body that parses as the expected type or not.   *)
(***************************************************************************)
NetworkConfig(l1_url, data_l1_url, timeout) ==
    [l1_url |-> l1_url, data_l1_url |-> data_l1_url, timeout |-> timeout]

\* NetworkError
HttpError(status_code) == [kind |-> "HttpError", status_code |-> status_code]
Timeout == [kind |-> "Timeout", status_code |-> None]
ConfigError == [kind |-> "ConfigError", status_code |-> None]
NetSerializationError == [kind |-> "SerializationError", status_code |-> None]

DEFAULT_TIMEOUT == 30

\* Option::unwrap_or
unwrap_or(opt, dflt) == IF opt = None THEN dflt ELSE opt[1]

\* str::trim_end_matches('/')
RECURSIVE trim_end_slash(_)
trim_end_slash(url) ==
    IF url # << >> /\ url[Len(url)] = 47
    THEN trim_end_slash(SubSeq(url, 1, Len(url) - 1))
    ELSE url

NoClient == [base_url |-> << >>, timeout_secs |-> 0]

\* HttpClient::new; built: Client::builder()...build() succeeded
HttpClient_new(base_url, timeout, built) ==
    IF ~built THEN Err(HttpError(None), NoClient)
    ELSE Ok([base_url |-> trim_end_slash(base_url),
             timeout_secs |-> unwrap_or(timeout, DEFAULT_TIMEOUT)])

\* variant: a client is built on whichever URL the configuration has
CurrencyL1Client_new_any_url(config, built) ==
    IF config.l1_url = None /\ config.data_l1_url = None
    THEN Err(ConfigError, NoClient)
    ELSE HttpClient_new(unwrap_or(config.l1_url,
                                  unwrap_or(config.data_l1_url, << >>)),
                        config.timeout, built)

CurrencyL1Client_new(config, built) ==
    IF config.l1_url = None THEN Err(ConfigError, NoClient)
    ELSE HttpClient_new(config.l1_url[1], config.timeout, built)

DataL1Client_new(config, built) ==
    IF config.data_l1_url = None THEN Err(ConfigError, NoClient)
    ELSE HttpClient_new(config.data_l1_url[1], config.timeout, built)

\* what a request meets: send is "ok", "timeout" or "failed"; status and
\* body (the value the body parses to, None when it does not parse) are
\* those of the response when there is one
Exchange(send, status, body) == [send |-> send, status |-> status, body |-> body]

\* StatusCode::is_success
is_success(status) == status \in 200..299

handle_response(response) ==
    IF ~is_success(response.status)
    THEN Err(HttpError(Some(response.status)), None)
    ELSE IF response.body = None THEN Err(NetSerializationError, None)
    ELSE Ok(response.body[1])

\* HttpClient::get
HttpClient_get(exchange) ==
    IF exchange.send = "timeout" THEN Err(Timeout, None)
    ELSE IF exchange.send # "ok" THEN Err(HttpError(None), None)
    ELSE handle_response(exchange)

\* variant: every HTTP error status is reported as "not found"
pending_of_any_status(r) ==
    IF r.ok THEN Ok(Some(r.val))
    ELSE IF r.err.kind = "HttpError" /\ r.err.status_code # None THEN Ok(None)
    ELSE Err(r.err, None)

\* the match of get_pending_transaction on the result of the GET
pending_of(r) ==
    IF r.ok THEN Ok(Some(r.val))
    ELSE IF r.err.kind = "HttpError" /\ r.err.status_code = Some(404)
    THEN Ok(None)
    ELSE Err(r.err, None)

get_pending_transaction(exchange) == pending_of(HttpClient_get(exchange))

(***************************************************************************)
(* Inputs of the model.                                                    *)
(***************************************************************************)
SkStr(k) == Blob("sk", k, FALSE, "", << >>)
PkId(k) == Blob("pkid", k, FALSE, "", << >>)

\* private-key arguments: the valid scalars, the zero scalar (64 hex
\* characters the curve library rejects) and "zz" (not hex)
PrivKeys == { SkStr(k) : k \in 0..NumKeys } \cup { Lit(<< 122, 122 >>) }

KeyLists == UNION { [1..n -> PrivKeys] : n \in 0..MaxProofs }

\* the DER signature, in hex, of key k over the plain digest of ValA1
DerOfA1(k) ==
    hex_encode(serialize_der(sign_ecdsa(compute_digest(ValA1, FALSE).val, k)))

\* proofs a caller can put into a Signed object without signing:
\* signature "zz" (not hex), signature "00" (hex, not DER), id "04" (hex, not
\* a public key), id "zz" (not hex)
RawProofs ==
    { SignatureProof(PkId(1), Lit(<< 122, 122 >>)),
      SignatureProof(PkId(1), Lit(<< 48, 48 >>)),
      SignatureProof(Lit(<< 48, 52 >>), DerOfA1(1)),
      SignatureProof(Lit(<< 122, 122 >>), DerOfA1(1)) }

(***************************************************************************)
(* State: a caller holding at most one Signed object.                      *)
(*   signed : the object the caller holds (Option<Signed<T>>)               *)
(*   how    : for each proof of signed, how it came to be there             *)
(*   call   : the last call and its arguments                               *)
(*   ret    : what the last call returned                                   *)
(***************************************************************************)
VARIABLES signed, how, call, ret
vars == << signed, how, call, ret >>

Call(op, value, keys, flag) ==
    [op |-> op, value |-> value, keys |-> keys, flag |-> flag]

\* ret.obj: the Signed object of an Ok result; ret.vr: a VerificationResult
Ret(ok, err, obj, vr) == [ok |-> ok, err |-> err, obj |-> obj, vr |-> vr]

How(op, key, flag, value) ==
    [op |-> op, key |-> key, flag |-> flag, value |-> value]

Init ==
    /\ signed = None
    /\ how = << >>
    /\ call = Call("none", << >>, << >>, FALSE)
    /\ ret = Ret(TRUE, "none", None, None)

\* what the caller sees of a returned Result<Signed<T>>
Returned(r) == Ret(r.ok, r.err, IF r.ok THEN Some(r.val) ELSE None, None)

\* let signed = create_signed_object(&v, pk, f), by a caller holding no object
CreateSignedObject(v, pk, f) ==
    /\ signed = None
    /\ call' = Call("create_signed_object", v, << pk >>, f)
    /\ ret' = Returned(create_signed_object(v, pk, f))
    /\ signed' = ret'.obj
    /\ how' = IF ret'.ok THEN << How("create", pk.key, f, v) >> ELSE << >>

\* let signed = add_signature(signed, pk, f): the argument is moved
AddSignature(pk, f) ==
    /\ signed # None
    /\ Len(signed[1].proofs) < MaxProofs
    /\ call' = Call("add_signature", signed[1].value, << pk >>, f)
    /\ ret' = Returned(add_signature(signed[1], pk, f))
    /\ signed' = ret'.obj
    /\ how' = IF ret'.ok
              THEN Append(how, How("add", pk.key, f, signed[1].value))
              ELSE << >>

\* let signed = batch_sign(&v, &keys, f), by a caller holding no object
BatchSign(v, keys, f) ==
    /\ signed = None
    /\ call' = Call("batch_sign", v, keys, f)
    /\ ret' = Returned(batch_sign(v, keys, f))
    /\ signed' = ret'.obj
    /\ how' = IF ret'.ok
              THEN [i \in 1..Len(keys) |-> How("batch", keys[i].key, f, v)]
              ELSE << >>

\* let result = verify(&signed, f)
Verify(f) ==
    /\ signed # None
    /\ call' = Call("verify", signed[1].value, << >>, f)
    /\ ret' = Ret(TRUE, "none", None, Some(verify(signed[1], f)))
    /\ UNCHANGED << signed, how >>

\* Signed { value: v, proofs: vec![] }
NewSigned(v) ==
    /\ signed = None
    /\ signed' = Some(Signed(v, << >>))
    /\ how' = << >>
    /\ call' = Call("construct", v, << >>, FALSE)
    /\ ret' = Ret(TRUE, "none", None, None)

\* Signed { value: v, proofs: signed.proofs }
ReplaceValue(v) ==
    /\ signed # None
    /\ v # signed[1].value
    /\ signed' = Some(Signed(v, signed[1].proofs))
    /\ call' = Call("construct", v, << >>, FALSE)
    /\ ret' = Ret(TRUE, "none", None, None)
    /\ UNCHANGED how

\* signed.proofs.push(p) with a proof that was not made by signing
PushProof(p) ==
    /\ signed # None
    /\ Len(signed[1].proofs) < MaxProofs
    /\ signed' = Some(Signed(signed[1].value, Append(signed[1].proofs, p)))
    /\ how' = Append(how, How("raw", 0, FALSE, << >>))
    /\ call' = Call("construct", signed[1].value, << >>, FALSE)
    /\ ret' = Ret(TRUE, "none", None, None)

Next ==
    \/ \E v \in Values, pk \in PrivKeys, f \in BOOLEAN :
          CreateSignedObject(v, pk, f)
    \/ \E pk \in PrivKeys, f \in BOOLEAN : AddSignature(pk, f)
    \/ \E v \in Values, keys \in KeyLists, f \in BOOLEAN : BatchSign(v, keys, f)
    \/ \E f \in BOOLEAN : Verify(f)
    \/ \E v \in Values : NewSigned(v)
    \/ \E v \in Values : ReplaceValue(v)
    \/ \E p \in RawProofs : PushProof(p)

Spec == Init /\ [][Next]_vars
(***************************************************************************)
(* Vocabulary of the properties.                                           *)
(***************************************************************************)
Obj == signed[1]
VR == ret.vr[1]
Verified == call.op = "verify"

ValidKey(pk) == pk.kind = "sk" /\ pk.key \in 1..NumKeys
Serializable(v) == \A i \in 1..Len(v) : IsFinite(v[i].n)
SameCanonical(v1, v2) == canonicalize_bytes(v1) = canonicalize_bytes(v2)
Signing(h) == h.op \in {"create", "add", "batch"}

\* proof i was made by signing, with flag f, a value that has the canonical
\* bytes of the value the object now carries
Genuine(i, f) ==
    /\ Signing(how[i])
    /\ how[i].flag = f
    /\ Serializable(Obj.value)
    /\ SameCanonical(how[i].value, Obj.value)

\* the elements of seq at the indices of S, in the order of seq, from i on
RECURSIVE Pick(_, _, _)
Pick(seq, S, i) ==
    IF i > Len(seq) THEN << >>
    ELSE (IF i \in S THEN << seq[i] >> ELSE << >>) \o Pick(seq, S, i + 1)

Indices == 1..Len(Obj.proofs)

(***************************************************************************)
(* C1: every result of verify satisfies                                    *)
(* is_valid = (invalid_proofs is empty and valid_proofs is non-empty), for  *)
(* any value (also one that cannot be serialized), any proof list and       *)
(* either flag; an object with zero proofs is never valid.                  *)
(***************************************************************************)
C1_IsValidInvariant ==
    Verified =>
        /\ VR.is_valid = (VR.invalid_proofs = << >> /\ VR.valid_proofs # << >>)
        /\ (Obj.proofs = << >> => ~VR.is_valid)

C1_Witness ==
    /\ Verified
    /\ Obj.proofs = << >>
    /\ Serializable(Obj.value)
    /\ ~VR.is_valid

(***************************************************************************)
(* C2: create_signed_object with a valid key returns an object with one     *)
(* proof, and verify of that object with the same flag is valid with        *)
(* exactly one valid proof and no invalid proof.                            *)
(***************************************************************************)
C2_CreateThenVerify ==
    /\ (call.op = "create_signed_object" /\ ValidKey(call.keys[1])
            /\ Serializable(call.value))
        => (ret.ok /\ ret.obj # None /\ Len(ret.obj[1].proofs) = 1
                /\ ret.obj[1].value = call.value)
    /\ (Verified /\ Len(how) = 1 /\ how[1].op = "create"
            /\ how[1].flag = call.flag /\ how[1].value = Obj.value)
        => (VR.is_valid /\ Len(VR.valid_proofs) = 1
                /\ VR.valid_proofs = Obj.proofs /\ VR.invalid_proofs = << >>)

C2_Witness ==
    /\ Verified
    /\ Len(how) = 1
    /\ how[1].op = "create"
    /\ how[1].flag = call.flag
    /\ call.flag
    /\ how[1].value = Obj.value
    /\ VR.is_valid

C4_Partition ==
    Verified =>
        /\ Len(VR.valid_proofs) + Len(VR.invalid_proofs) = Len(Obj.proofs)
        /\ \E S \in SUBSET Indices :
              /\ VR.valid_proofs = Pick(Obj.proofs, S, 1)
              /\ VR.invalid_proofs = Pick(Obj.proofs, Indices \ S, 1)

C4_Witness ==
    /\ Verified
    /\ Len(Obj.proofs) = MaxProofs
    /\ Len(VR.invalid_proofs) >= 2
    /\ VR.invalid_proofs[1] # VR.invalid_proofs[2]

(***************************************************************************)
(* C5: verify returns a result for a proof list holding malformed proofs    *)
(* (bad hex, bad DER, bad public key): each of them is classified invalid   *)
(* and every other proof, also after a malformed one, is still classified:  *)
(* valid exactly when it was signed with the flag of the verification over  *)
(* the canonical bytes of the object's value.                               *)
(***************************************************************************)
C5_NoEarlyAbort ==
    (Verified /\ \E i \in Indices : how[i].op = "raw") =>
        /\ ret.ok
        /\ ret.vr # None
        /\ VR.valid_proofs =
              Pick(Obj.proofs, { i \in Indices : Genuine(i, call.flag) }, 1)
        /\ VR.invalid_proofs =
              Pick(Obj.proofs, { i \in Indices : ~Genuine(i, call.flag) }, 1)

C5_Witness ==
    /\ Verified
    /\ Len(Obj.proofs) >= 2
    /\ how[1].op = "raw"
    /\ Genuine(2, call.flag)
    /\ VR.valid_proofs = << Obj.proofs[2] >>
    /\ VR.invalid_proofs = << Obj.proofs[1] >>
(***************************************************************************)
(* C6: with n >= 1 distinct valid keys and one flag f, batch_sign returns   *)
(* an object with n proofs, and so does create_signed_object followed by    *)
(* n-1 add_signature calls; verify with f then reports the object valid     *)
(* with all n proofs, in order, in valid_proofs.                            *)
(***************************************************************************)
DistinctKeys == \A i, j \in 1..Len(how) : i # j => how[i].key # how[j].key

ByBatch == \A i \in 1..Len(how) : how[i].op = "batch"

ByCreateAndAdds ==
    /\ how[1].op = "create"
    /\ \A i \in 2..Len(how) : how[i].op = "add"

C6_MultiSig ==
    /\ (call.op = "batch_sign" /\ call.keys # << >>
            /\ Serializable(call.value)
            /\ \A i \in 1..Len(call.keys) : ValidKey(call.keys[i]))
        => (ret.ok /\ ret.obj # None
                /\ Len(ret.obj[1].proofs) = Len(call.keys))
    /\ (Verified /\ Len(how) >= 1 /\ (ByBatch \/ ByCreateAndAdds)
            /\ DistinctKeys
            /\ \A i \in 1..Len(how) :
                  how[i].flag = call.flag /\ how[i].value = Obj.value)
        => (Len(Obj.proofs) = Len(how) /\ VR.is_valid
                /\ VR.valid_proofs = Obj.proofs /\ VR.invalid_proofs = << >>)

C6_Witness ==
    /\ Verified
    /\ Len(how) = MaxProofs
    /\ ByBatch
    /\ DistinctKeys
    /\ \A i \in 1..Len(how) : how[i].flag = call.flag /\ how[i].value = Obj.value
    /\ call.flag
    /\ VR.is_valid
    /\ Len(VR.valid_proofs) = MaxProofs

(***************************************************************************)
(* C7: a successful add_signature returns an object with the value of the   *)
(* input object and the input proofs, unchanged and in order, followed by   *)
(* exactly one new proof (of the signing key) in last position, also when   *)
(* that key has signed before.                                              *)
(***************************************************************************)
C7_AppendOnly ==
    [][(call'.op = "add_signature" /\ ret'.ok) =>
          /\ signed # None
          /\ ret'.obj # None
          /\ signed' = ret'.obj
          /\ ret'.obj[1].value = signed[1].value
          /\ Len(ret'.obj[1].proofs) = Len(signed[1].proofs) + 1
          /\ SubSeq(ret'.obj[1].proofs, 1, Len(signed[1].proofs))
                = signed[1].proofs
          /\ ret'.obj[1].proofs[Len(signed[1].proofs) + 1].id
                = PkId(call'.keys[1].key)]_vars

C7_Witness ==
    /\ call.op = "add_signature"
    /\ ret.ok
    /\ Len(Obj.proofs) = 2
    /\ how[1].key = how[2].key
    /\ Obj.proofs[1] = Obj.proofs[2]

(***************************************************************************)
(* C8: batch_sign with an empty key list returns the NoPrivateKeys error    *)
(* and no Signed object, for every value and either flag.                   *)
(***************************************************************************)
C8_EmptyKeys ==
    (call.op = "batch_sign" /\ call.keys = << >>) =>
        /\ ~ret.ok
        /\ ret.err = "NoPrivateKeys"
        /\ ret.obj = None
        /\ signed = None

C8_Witness ==
    /\ call.op = "batch_sign"
    /\ call.keys = << >>
    /\ ~Serializable(call.value)
    /\ call.flag
    /\ ret.err = "NoPrivateKeys"

(***************************************************************************)
(* C9: batch_sign is all-or-nothing: when signing fails for a key of a      *)
(* non-empty key list (a key that is no valid scalar, at any position, or   *)
(* a value that cannot be serialized), batch_sign returns an error and no   *)
(* Signed object.                                                           *)
(***************************************************************************)
C9_AllOrNothing ==
    (call.op = "batch_sign" /\ call.keys # << >>
        /\ (~Serializable(call.value)
              \/ \E i \in 1..Len(call.keys) : ~ValidKey(call.keys[i])))
    => (~ret.ok /\ ret.err # "NoPrivateKeys" /\ ret.obj = None /\ signed = None)

C9_Witness ==
    /\ call.op = "batch_sign"
    /\ Len(call.keys) = MaxProofs
    /\ Serializable(call.value)
    /\ ValidKey(call.keys[1])
    /\ ~ValidKey(call.keys[MaxProofs])
    /\ ~ret.ok
    /\ ret.obj = None

(***************************************************************************)
(* C10: add_signature does not check the flag: with a valid key it succeeds *)
(* whatever flag the earlier proofs were made with; after create with f and *)
(* add_signature with the other flag, verify with f reports the object not  *)
(* valid, the first proof in valid_proofs and the new one in invalid_proofs.*)
(***************************************************************************)
C10_FlagMismatch ==
    /\ (call.op = "add_signature" /\ ValidKey(call.keys[1])
            /\ Serializable(call.value))
        => ret.ok
    /\ (Verified /\ Len(how) = 2 /\ how[1].op = "create" /\ how[2].op = "add"
            /\ how[2].flag # how[1].flag /\ call.flag = how[1].flag
            /\ how[1].value = Obj.value /\ how[2].value = Obj.value)
        => (~VR.is_valid
                /\ VR.valid_proofs = << Obj.proofs[1] >>
                /\ VR.invalid_proofs = << Obj.proofs[2] >>)

C10_Witness ==
    /\ Verified
    /\ Len(how) = 2
    /\ how[1].op = "create"
    /\ how[2].op = "add"
    /\ how[1].key # how[2].key
    /\ how[2].flag # how[1].flag
    /\ call.flag = how[1].flag
    /\ how[1].value = Obj.value
    /\ how[2].value = Obj.value
    /\ VR.invalid_proofs = << Obj.proofs[2] >>

(***************************************************************************)
(* Second specification: a caller of the stateless operations (encoder,    *)
(* decoder, digest engine, key pairs, network clients), one call at a time. *)
(*   call : the last call: its name, its argument and, in call.ghost, where *)
(*          the argument came from (an earlier result, the parts it was put  *)
(*          together from, what the environment answered)                    *)
(*   ret  : what the last call returned (the value of an operation that      *)
(*          cannot fail is recorded as Ok)                                   *)
(* signed and how are not used.                                              *)
(***************************************************************************)
Called(op, arg, ghost) == [op |-> op, arg |-> arg, ghost |-> ghost]

\* values given to the encoder: those of the first specification, the empty
\* object (one padding mark in its base64 text) and an object whose base64
\* text has no padding
CodecValues == Values \cup { << >>, << Member(97, 100) >> }

CanonA1 == canonicalize_bytes(ValA1).val
B64A1 == base64_encode(CanonA1)

\* a body of a framed input: its text, what it is, and the value it encodes
Body(text, class, value) == [text |-> text, class |-> class, value |-> value]

\* texts that are not base64: a character outside the alphabet, padding
\* left out, unused bits set, a byte that is no UTF-8, padding in the middle
BadBase64 ==
    { << 33, 33, 33, 33 >>,
      SubSeq(B64A1, 1, 10),
      [B64A1 EXCEPT ![10] = 82],
      << 255, 255, 255, 255 >>,
      B64A1 \o B64A1 }

\* bytes that do not parse as a value: nothing, a cut object, an object
\* followed by a character, an array, a number with a leading zero
NotJson ==
    { << >>,
      SubSeq(CanonA1, 1, Len(CanonA1) - 1),
      CanonA1 \o << 120 >>,
      << 91, 49, 93 >>,
      << 123, 34, 97, 34, 58, 48, 49, 125 >> }

Bodies ==
    { Body(base64_encode(canonicalize_bytes(v).val), "value", v) :
          v \in { w \in CodecValues : canonicalize_bytes(w).ok } }
    \cup { Body(t, "not_base64", << >>) : t \in BadBase64 }
    \cup { Body(base64_encode(b), "not_json", << >>) : b \in NotJson }

\* length lines that parse as usize: "0", "999", "+5", "007"
OtherLens == { << 48 >>, << 57, 57, 57 >>, << 43, 53 >>, << 48, 48, 55 >> }

\* length lines that do not: "", "x", "-1", "1.5", and 21 nines (more than
\* 64 bits)
BadLens ==
    { << >>, << 120 >>, << 45, 49 >>, << 49, 46, 53 >>, [i \in 1..21 |-> 57] }

\* what stands in the place of the prefix: the prefix, the prefix without
\* its first byte, "invalid", the prefix after a byte that is no UTF-8
Prefixes ==
    { CONSTELLATION_PREFIX, Tail(CONSTELLATION_PREFIX),
      << 105, 110, 118, 97, 108, 105, 100 >>,
      << 255 >> \o CONSTELLATION_PREFIX }

\* an input of the decoder, by its parts; len_ok: the length line parses
Frame(prefix, len, len_ok, sep, body) ==
    [from |-> "frame", prefix |-> prefix, len |-> len, len_ok |-> len_ok,
     sep |-> sep, body |-> body]

Frames ==
    UNION { { Frame(p, l, TRUE, s, b) :
                  p \in Prefixes,
                  l \in { fmt_usize(Len(b.text)) } \cup OtherLens,
                  s \in { << 10 >>, << >> } }
            \cup { Frame(p, l, FALSE, s, b) :
                  p \in Prefixes, l \in BadLens, s \in { << 10 >>, << >> } } :
            b \in Bodies }

FrameBytes(fr) == fr.prefix \o fr.len \o fr.sep \o fr.body.text

\* byte strings given to the digest engine
ByteInputs ==
    { << >>, << 0 >>, << 97, 98, 99 >> }
    \cup { to_bytes(v, f).val : v \in { w \in Values : canonicalize_bytes(w).ok },
                                f \in BOOLEAN }

\* private-key arguments of key_pair_from_private_key: those of the first
\* specification, "", 63 and 65 hex digits, 64 characters of which the last
\* is no hex digit, 64 times "g", and a public key id (128 hex digits)
WalletKeys ==
    PrivKeys
    \cup { Lit(<< >>),
           Lit([i \in 1..63 |-> 97]),
           Lit([i \in 1..65 |-> 97]),
           Lit([i \in 1..64 |-> IF i = 64 THEN 103 ELSE 97]),
           Lit([i \in 1..64 |-> 103]),
           PkId(1) }

\* URLs: "h", "h/" and "d"
Urls == { << 104 >>, << 104, 47 >>, << 100 >> }

Configs ==
    { NetworkConfig(u, d, t) :
          u \in { None } \cup { Some(x) : x \in Urls },
          d \in { None } \cup { Some(x) : x \in Urls },
          t \in { None, Some(5) } }

PendingTransaction(hash, status) == [hash |-> hash, status |-> status]

\* what a GET of /transactions/{hash} can meet
Exchanges ==
    { Exchange("timeout", 0, None), Exchange("failed", 0, None) }
    \cup { Exchange("ok", s, b) :
               s \in { 200, 204, 301, 400, 404, 500 },
               b \in { None }
                     \cup { Some(PendingTransaction(<< 104 >>, st)) :
                                st \in { "Waiting", "InProgress", "Accepted" } } }

CallsInit ==
    /\ signed = None
    /\ how = << >>
    /\ call = Called("none", << >>, None)
    /\ ret = Ok(<< >>)

ToBytes(v, f) ==
    /\ call' = Called("to_bytes", [value |-> v, flag |-> f], None)
    /\ ret' = to_bytes(v, f)
    /\ UNCHANGED << signed, how >>

EncodeDataUpdate(v) ==
    /\ call' = Called("encode_data_update", v, None)
    /\ ret' = encode_data_update(v)
    /\ UNCHANGED << signed, how >>

\* decode_data_update(&encoded), encoded the result of encode_data_update
DecodeEncoded ==
    /\ call.op = "encode_data_update"
    /\ ret.ok
    /\ call' = Called("decode_data_update", ret.val,
                      [from |-> "encode", value |-> call.arg])
    /\ ret' = decode_data_update(ret.val)
    /\ UNCHANGED << signed, how >>

\* decode_data_update of bytes put together by the caller
DecodeFrame(fr) ==
    /\ call' = Called("decode_data_update", FrameBytes(fr), fr)
    /\ ret' = decode_data_update(FrameBytes(fr))
    /\ UNCHANGED << signed, how >>

\* compute_digest; the ghost keeps the call before when it was one too
ComputeDigest(v, f) ==
    /\ call' = Called("compute_digest", [value |-> v, flag |-> f],
                      IF call.op = "compute_digest"
                      THEN Some([arg |-> call.arg, ret |-> ret])
                      ELSE None)
    /\ ret' = compute_digest(v, f)
    /\ UNCHANGED << signed, how >>

HashBytes(data) ==
    /\ call' = Called("hash_bytes", data, None)
    /\ ret' = Ok(hash_bytes(data))
    /\ UNCHANGED << signed, how >>

\* compute_digest_from_hash(&hash.value), hash the result of hash_bytes(data)
ComputeDigestFromHash ==
    /\ call.op = "hash_bytes"
    /\ call' = Called("compute_digest_from_hash", ret.val.value,
                      [data |-> call.arg])
    /\ ret' = Ok(compute_digest_from_hash(ret.val.value))
    /\ UNCHANGED << signed, how >>

\* compute_digest_from_bytes(data) after the digest of hash_bytes(data).value
ComputeDigestFromBytes ==
    /\ call.op = "compute_digest_from_hash"
    /\ call' = Called("compute_digest_from_bytes", call.ghost.data,
                      [from_hash |-> ret.val])
    /\ ret' = Ok(compute_digest_from_bytes(call.ghost.data))
    /\ UNCHANGED << signed, how >>

\* generate_key_pair(); the random generator draws the scalar sk
GenerateKeyPair(sk) ==
    /\ call' = Called("generate_key_pair", << >>, [drawn |-> sk])
    /\ ret' = Ok(generate_key_pair(sk))
    /\ UNCHANGED << signed, how >>

\* key_pair_from_private_key; the ghost keeps the key pair generated just
\* before, if any
KeyPairFromPrivateKey(pk) ==
    /\ call' = Called("key_pair_from_private_key", pk,
                      IF call.op = "generate_key_pair" THEN Some(ret.val)
                      ELSE None)
    /\ ret' = key_pair_from_private_key(pk)
    /\ UNCHANGED << signed, how >>

NewCurrencyL1Client(config, built) ==
    /\ call' = Called("CurrencyL1Client::new", config, [built |-> built])
    /\ ret' = CurrencyL1Client_new(config, built)
    /\ UNCHANGED << signed, how >>

NewDataL1Client(config, built) ==
    /\ call' = Called("DataL1Client::new", config, [built |-> built])
    /\ ret' = DataL1Client_new(config, built)
    /\ UNCHANGED << signed, how >>

\* client.get_pending_transaction(hash), on the client just built or the one
\* polled before
GetPendingTransaction(exchange) ==
    /\ \/ call.op = "CurrencyL1Client::new" /\ ret.ok
       \/ call.op = "get_pending_transaction"
    /\ call' = Called("get_pending_transaction",
                      IF call.op = "get_pending_transaction" THEN call.arg
                      ELSE ret.val,
                      exchange)
    /\ ret' = get_pending_transaction(exchange)
    /\ UNCHANGED << signed, how >>

\* the hex text of the DER encoding of the signature (r, s) of key sk over
\* a digest; hi: s is the larger of s and n - s
DerHex(sk, hi, digest) == Blob("der", sk, hi, digest.pre, digest.data)

\* verify_hash of the hash of data, a signature of key sk over the digest of
\* signed_data in either S form, and the public key of pk with or without
\* the "04" marker
VerifyHash(signed_data, data, sk, pk, hi, full) ==
    /\ call' = Called("verify_hash",
                      [hash_hex |-> hash_bytes(data).value,
                       signature |->
                           DerHex(sk, hi, compute_digest_from_bytes(signed_data)),
                       public_key_id |->
                           IF full THEN normalize_public_key(PkId(pk))
                           ELSE PkId(pk)],
                      [signed_data |-> signed_data, data |-> data,
                       sk |-> sk, pk |-> pk, hi |-> hi])
    /\ ret' = verify_hash(call'.arg.hash_hex, call'.arg.signature,
                          call'.arg.public_key_id)
    /\ UNCHANGED << signed, how >>

\* byte strings given to base58_encode: zero, small, 58 and the largest byte
Base58Inputs == UNION { [1..n -> { 0, 1, 58, 255 }] : n \in 0..MaxBytes }

Base58Encode(data) ==
    /\ call' = Called("base58_encode", data, None)
    /\ ret' = Ok(base58_encode(data))
    /\ UNCHANGED << signed, how >>

\* public-key arguments of get_address: the keys of the model with and
\* without the "04" marker, "" and "04" (hex), and texts that are not hex:
\* "zz", "abc" (odd length), 127 hex digits, 128 times "g"
AddressInputs ==
    { PkId(k) : k \in 1..NumKeys }
    \cup { normalize_public_key(PkId(k)) : k \in 1..NumKeys }
    \cup { Lit(<< >>), Lit(<< 48, 52 >>),
           Lit(<< 122, 122 >>), Lit(<< 97, 98, 99 >>),
           Lit([i \in 1..127 |-> 97]), Lit([i \in 1..128 |-> 103]) }

GetAddress(pk) ==
    /\ call' = Called("get_address", pk, None)
    /\ ret' = Ok(get_address(pk))
    /\ UNCHANGED << signed, how >>

CallsNext ==
    \/ \E v \in CodecValues, f \in BOOLEAN : ToBytes(v, f)
    \/ \E v \in CodecValues : EncodeDataUpdate(v)
    \/ DecodeEncoded
    \/ \E fr \in Frames : DecodeFrame(fr)
    \/ \E v \in Values, f \in BOOLEAN : ComputeDigest(v, f)
    \/ \E data \in ByteInputs : HashBytes(data)
    \/ ComputeDigestFromHash
    \/ ComputeDigestFromBytes
    \/ \E sk \in 1..NumKeys : GenerateKeyPair(sk)
    \/ \E pk \in WalletKeys : KeyPairFromPrivateKey(pk)
    \/ \E config \in Configs, built \in BOOLEAN :
          NewCurrencyL1Client(config, built)
    \/ \E config \in Configs, built \in BOOLEAN : NewDataL1Client(config, built)
    \/ \E exchange \in Exchanges : GetPendingTransaction(exchange)
    \/ \E signed_data \in { CanonA1, << >> }, data \in { CanonA1, << >> },
          sk \in 1..NumKeys, pk \in 1..NumKeys, hi \in BOOLEAN,
          full \in BOOLEAN :
          VerifyHash(signed_data, data, sk, pk, hi, full)
    \/ \E data \in Base58Inputs : Base58Encode(data)
    \/ \E pk \in AddressInputs : GetAddress(pk)

SpecCalls == CallsInit /\ [][CallsNext]_vars

(***************************************************************************)
(* Vocabulary of the properties of the second specification.               *)
(***************************************************************************)
\* equality of two values: the same members, whatever their order
json_eq(a, b) == SortMembers(a) = SortMembers(b)

FromEncode == call.op = "decode_data_update" /\ call.ghost.from = "encode"
FromFrame == call.op = "decode_data_update" /\ call.ghost.from = "frame"

\* the frame has the prefix, a newline after the length line, and so on
HasPrefix(fr) == fr.prefix = CONSTELLATION_PREFIX
HasNewline(fr) == fr.sep = << 10 >>
RealLength(fr) == fr.len = fmt_usize(Len(fr.body.text))

\* 64 hexadecimal characters
Hex64(s) ==
    \/ s.kind \in {"sk", "hexhash"}
    \/ s.kind = "lit" /\ Len(s.data) = 64
                      /\ \A i \in 1..64 : IsHexDigit(s.data[i])

(***************************************************************************)
(* C11: encode_data_update succeeds for every value that can be serialized, *)
(* and decode_data_update of the bytes it returned succeeds and returns a   *)
(* value equal to the encoded one.                                          *)
(***************************************************************************)
C11_RoundTrip ==
    /\ (call.op = "encode_data_update" /\ Serializable(call.arg)) => ret.ok
    /\ FromEncode => (ret.ok /\ json_eq(ret.val, call.ghost.value))

C11_Witness ==
    /\ FromEncode
    /\ call.ghost.value = ValBA
    /\ ret.ok
    /\ ret.val = ValAB

(***************************************************************************)
(* C12: to_bytes(v, false) returns exactly the canonical bytes of v;        *)
(* to_bytes(v, true) returns exactly the prefix, the decimal text of the    *)
(* length of the base64 text of the canonical bytes, a newline and that     *)
(* base64 text: for {"a":1} the prefix followed by "12\neyJhIjoxfQ==".      *)
(***************************************************************************)
C12_Layout ==
    call.op = "to_bytes" =>
        /\ ret.ok = Serializable(call.arg.value)
        /\ (ret.ok /\ ~call.arg.flag)
            => ret.val = canonicalize_bytes(call.arg.value).val
        /\ (ret.ok /\ call.arg.flag)
            => /\ starts_with(ret.val, CONSTELLATION_PREFIX)
               /\ \E n \in 1..Len(ret.val) :
                     /\ n > Len(CONSTELLATION_PREFIX)
                     /\ ret.val[n] = 10
                     /\ SubSeq(ret.val, Len(CONSTELLATION_PREFIX) + 1, n - 1)
                           = fmt_usize(Len(ret.val) - n)
                     /\ SubSeq(ret.val, n + 1, Len(ret.val))
                           = base64_encode(
                                 canonicalize_bytes(call.arg.value).val)
                     /\ base64_decode(SubSeq(ret.val, n + 1, Len(ret.val)))
                           = canonicalize_bytes(call.arg.value)
        /\ (call.arg.value = ValA1 /\ call.arg.flag)
            => ret.val = CONSTELLATION_PREFIX
                         \o << 49, 50, 10 >>
                         \o << 101, 121, 74, 104, 73, 106, 111, 120, 102, 81,
                               61, 61 >>

C12_Witness ==
    /\ call.op = "to_bytes"
    /\ call.arg.value = ValBA
    /\ call.arg.flag
    /\ ret.ok
    /\ Len(ret.val) = Len(CONSTELLATION_PREFIX) + 3 + 20

(***************************************************************************)
(* C13: decode_data_update returns a serialization error and no value for   *)
(* every input that lacks the prefix, or has no newline after the length    *)
(* line, or whose length line does not parse as an unsigned integer, or     *)
(* whose body is not base64, or whose decoded bytes do not parse as a value.*)
(***************************************************************************)
C13_DecodeRejects ==
    (FromFrame /\ (\/ ~HasPrefix(call.ghost)
                   \/ ~HasNewline(call.ghost)
                   \/ ~call.ghost.len_ok
                   \/ call.ghost.body.class # "value"))
    => (~ret.ok /\ ret.err = "SerializationError" /\ ret.val = << >>)

C13_Witness ==
    /\ FromFrame
    /\ HasPrefix(call.ghost)
    /\ HasNewline(call.ghost)
    /\ ~call.ghost.len_ok
    /\ call.ghost.body.class = "value"
    /\ ~ret.ok
    /\ ret.err = "SerializationError"

(***************************************************************************)
(* C14: for every value that can be serialized, compute_digest with the     *)
(* flag off and compute_digest with the flag on both succeed and return     *)
(* different digests, in whichever order the two calls are made.            *)
(***************************************************************************)
C14_DigestsDiffer ==
    (call.op = "compute_digest" /\ call.ghost # None
        /\ call.ghost[1].arg.value = call.arg.value
        /\ call.ghost[1].arg.flag # call.arg.flag
        /\ Serializable(call.arg.value))
    => /\ ret.ok
       /\ call.ghost[1].ret.ok
       /\ ret.val # call.ghost[1].ret.val

C14_Witness ==
    /\ call.op = "compute_digest"
    /\ call.ghost # None
    /\ call.ghost[1].arg.value = call.arg.value
    /\ ~call.ghost[1].arg.flag
    /\ call.arg.flag
    /\ ret.ok
    /\ ret.val # call.ghost[1].ret.val

(***************************************************************************)
(* C16: key_pair_from_private_key returns the InvalidPrivateKey error for   *)
(* every input that is not 64 hexadecimal characters (so before any         *)
(* decoding or derivation, whose errors are of other kinds); for a valid    *)
(* key it returns a key pair whose private key is the input and whose       *)
(* public key and address are the ones derived from it, the same key pair   *)
(* generate_key_pair returned for that scalar.                              *)
(***************************************************************************)
C16_KeyPairFromPrivateKey ==
    call.op = "key_pair_from_private_key" =>
        /\ ~Hex64(call.arg) => (~ret.ok /\ ret.err = "InvalidPrivateKey")
        /\ ValidKey(call.arg) => ret.ok
        /\ ret.ok =>
              /\ ret.val.private_key = call.arg
              /\ ret.val.public_key = Blob("pkfull", call.arg.key, FALSE, "", << >>)
              /\ ret.val.address = get_address(ret.val.public_key)
        /\ (call.ghost # None /\ call.arg = call.ghost[1].private_key)
            => (ret.ok /\ ret.val = call.ghost[1])

C16_Witness ==
    /\ call.op = "key_pair_from_private_key"
    /\ call.ghost # None
    /\ call.arg = call.ghost[1].private_key
    /\ ret.ok
    /\ ret.val.public_key = call.ghost[1].public_key
    /\ ret.val.address = call.ghost[1].address

(***************************************************************************)
(* C17: get_pending_transaction returns Ok(Some(tx)) when the GET returns a *)
(* transaction, Ok(None) when the response has status 404, and every other  *)
(* failure as the error the GET returned: a timeout, a transport failure,   *)
(* another status code, a body that does not parse.                         *)
(***************************************************************************)
C17_NotFoundIsNone ==
    call.op = "get_pending_transaction" =>
        /\ (call.ghost.send = "ok" /\ call.ghost.status \in 200..299
                /\ call.ghost.body # None)
            => ret = Ok(Some(call.ghost.body[1]))
        /\ (call.ghost.send = "ok" /\ call.ghost.status = 404)
            => ret = Ok(None)
        /\ call.ghost.send = "timeout" => (~ret.ok /\ ret.err = Timeout)
        /\ call.ghost.send = "failed" => (~ret.ok /\ ret.err = HttpError(None))
        /\ (call.ghost.send = "ok" /\ call.ghost.status \notin 200..299
                /\ call.ghost.status # 404)
            => (~ret.ok /\ ret.err = HttpError(Some(call.ghost.status)))
        /\ (call.ghost.send = "ok" /\ call.ghost.status \in 200..299
                /\ call.ghost.body = None)
            => (~ret.ok /\ ret.err = NetSerializationError)
        /\ ~ret.ok => ret.err = HttpClient_get(call.ghost).err

C17_Witness ==
    /\ call.op = "get_pending_transaction"
    /\ call.ghost.send = "ok"
    /\ call.ghost.status = 404
    /\ call.ghost.body # None
    /\ ret = Ok(None)

(***************************************************************************)
(* C18: CurrencyL1Client::new fails with ConfigError exactly when l1_url is *)
(* absent and DataL1Client::new exactly when data_l1_url is absent; with    *)
(* its URL present a client is built on that URL, whatever the other URL    *)
(* and the timeout are.                                                     *)
(***************************************************************************)
C18_OwnUrlOnly ==
    /\ call.op = "CurrencyL1Client::new" =>
          /\ (~ret.ok /\ ret.err = ConfigError) = (call.arg.l1_url = None)
          /\ ret.ok = (call.arg.l1_url # None /\ call.ghost.built)
          /\ ret.ok => ret.val.base_url = trim_end_slash(call.arg.l1_url[1])
    /\ call.op = "DataL1Client::new" =>
          /\ (~ret.ok /\ ret.err = ConfigError) = (call.arg.data_l1_url = None)
          /\ ret.ok = (call.arg.data_l1_url # None /\ call.ghost.built)
          /\ ret.ok => ret.val.base_url = trim_end_slash(call.arg.data_l1_url[1])

C18_Witness ==
    /\ call.op = "CurrencyL1Client::new"
    /\ call.arg.l1_url = None
    /\ call.arg.data_l1_url # None
    /\ call.arg.timeout # None
    /\ call.ghost.built
    /\ ~ret.ok
    /\ ret.err = ConfigError

(***************************************************************************)
(* C19: compute_digest_from_bytes(data) equals                              *)
(* compute_digest_from_hash(hash_bytes(data).value), for every byte string. *)
(***************************************************************************)
C19_DigestPathsAgree ==
    call.op = "compute_digest_from_bytes" =>
        /\ ret.ok
        /\ ret.val = call.ghost.from_hash
        /\ ret.val = compute_digest_from_hash(hash_bytes(call.arg).value)

C19_Witness ==
    /\ call.op = "compute_digest_from_bytes"
    /\ call.arg = to_bytes(ValA1, TRUE).val
    /\ ret.val = call.ghost.from_hash
    /\ ret.val.pre = "hexhash"

(***************************************************************************)
(* C20: decode_data_update does not compare the length line with the body:  *)
(* with the prefix, a length line that parses as an unsigned integer and is *)
(* not the length of the body, a newline and the base64 text of a value,    *)
(* it succeeds and returns the value it returns with the real length.       *)
(***************************************************************************)
C20_LengthIgnored ==
    (FromFrame /\ HasPrefix(call.ghost) /\ HasNewline(call.ghost)
        /\ call.ghost.len_ok /\ ~RealLength(call.ghost)
        /\ call.ghost.body.class = "value")
    => /\ ret.ok
       /\ json_eq(ret.val, call.ghost.body.value)
       /\ ret = decode_data_update(
                    CONSTELLATION_PREFIX
                    \o fmt_usize(Len(call.ghost.body.text)) \o << 10 >>
                    \o call.ghost.body.text)

C20_Witness ==
    /\ FromFrame
    /\ HasPrefix(call.ghost)
    /\ HasNewline(call.ghost)
    /\ call.ghost.len = << 57, 57, 57 >>
    /\ call.ghost.body.value = ValA1
    /\ call.ghost.body.class = "value"
    /\ ret.ok
    /\ ret.val = ValA1

(***************************************************************************)
(* C21: verify_hash returns true for a valid signature (r, s) of the key    *)
(* over the digest of the hash and also for its high-S counterpart          *)
(* (r, n - s); a signature of another key or over another digest is         *)
(* reported false in both forms.                                            *)
(***************************************************************************)
C21_BothSForms ==
    call.op = "verify_hash" =>
        ret = Ok(call.ghost.sk = call.ghost.pk
                 /\ call.ghost.signed_data = call.ghost.data)

C21_Witness ==
    /\ call.op = "verify_hash"
    /\ call.ghost.hi
    /\ call.arg.signature.hi
    /\ call.ghost.sk = call.ghost.pk
    /\ call.ghost.signed_data = call.ghost.data
    /\ ret = Ok(TRUE)

(***************************************************************************)
(* C22: base58_encode of bytes with k leading zero bytes returns k          *)
(* characters '1' followed by the base-58 digits, most significant first    *)
(* and without a leading zero digit, of the big-endian integer of the       *)
(* bytes: read back as an integer in base 58, the digits give the bytes     *)
(* after the leading zeros.  All-zero bytes give k characters '1' and       *)
(* nothing else, no bytes give the empty string.                            *)
(***************************************************************************)
\* how many times c stands at the start of s
RECURSIVE LeadCount(_, _)
LeadCount(s, c) ==
    IF s # << >> /\ Head(s) = c THEN 1 + LeadCount(Tail(s), c) ELSE 0

\* the digit a character of the alphabet stands for
Base58Digit(c) == CHOOSE d \in 0..57 : BASE58_ALPHABET[d + 1] = c

\* acc * 58 + d, acc and the result in base 256, least significant first
RECURSIVE MulAdd256(_, _)
MulAdd256(acc, d) ==
    IF acc = << >>
    THEN IF d = 0 THEN << >>
         ELSE << d % 256 >> \o MulAdd256(<< >>, d \div 256)
    ELSE << (Head(acc) * 58 + d) % 256 >>
         \o MulAdd256(Tail(acc), (Head(acc) * 58 + d) \div 256)

\* the integer of a text of base-58 digits, in base 256
RECURSIVE Read58(_, _)
Read58(text, acc) ==
    IF text = << >> THEN acc
    ELSE Read58(Tail(text), MulAdd256(acc, Base58Digit(Head(text))))

Reversed(s) == [i \in 1..Len(s) |-> s[Len(s) + 1 - i]]

Zeros == LeadCount(call.arg, 0)

C22_Base58 ==
    call.op = "base58_encode" =>
        /\ ret.ok
        /\ call.arg = << >> => ret.val = << >>
        /\ \A i \in 1..Len(ret.val) :
              \E d \in 0..57 : BASE58_ALPHABET[d + 1] = ret.val[i]
        /\ LeadCount(ret.val, 49) = Zeros
        /\ Zeros = Len(call.arg) => Len(ret.val) = Zeros
        /\ Reversed(Read58(SubSeq(ret.val, Zeros + 1, Len(ret.val)), << >>))
              = SubSeq(call.arg, Zeros + 1, Len(call.arg))

C22_Witness ==
    /\ call.op = "base58_encode"
    /\ call.arg = << 0, 0, 255 >>
    /\ ret.val = << 49, 49, 53, 81 >>

(***************************************************************************)
(* C23: verify of an object whose value cannot be serialized returns a      *)
(* result, no error: is_valid is false, valid_proofs is empty and           *)
(* invalid_proofs is the whole proof list of the object in its order,       *)
(* whatever the proofs are and with either flag.                            *)
(***************************************************************************)
C23_UnserializableValue ==
    (Verified /\ ~Serializable(Obj.value)) =>
        /\ ret.ok
        /\ ret.vr # None
        /\ ~VR.is_valid
        /\ VR.valid_proofs = << >>
        /\ VR.invalid_proofs = Obj.proofs

C23_Witness ==
    /\ Verified
    /\ ~Serializable(Obj.value)
    /\ Len(Obj.proofs) = 2
    /\ Signing(how[1])
    /\ how[2].op = "raw"
    /\ Obj.proofs[1] # Obj.proofs[2]
    /\ VR.invalid_proofs = Obj.proofs

(***************************************************************************)
(* C24: get_address returns an address for every input, and the address     *)
(* starts with "DAG"; for every text that is not hex it is the address of   *)
(* the empty byte string ("DAG" and the base58 of SHA-256 of no bytes), the  *)
(* same for all of them; for a key of the model it is the address of its    *)
(* 65-byte point, with or without the "04" marker.                          *)
(***************************************************************************)
\* the text is hex: an even number of hex digits
IsHexText(s) ==
    \/ s.kind # "lit"
    \/ Len(s.data) % 2 = 0 /\ \A i \in 1..Len(s.data) : IsHexDigit(s.data[i])

C24_AddressTotal ==
    call.op = "get_address" =>
        /\ ret.ok
        /\ ret.val.dag = << 68, 65, 71 >>
        /\ ~IsHexText(call.arg) => ret.val = DagAddress(Sha256(Lit(<< >>)))
        /\ call.arg.kind \in {"pkid", "pkfull"}
            => ret.val = DagAddress(Sha256(
                             Blob("point65", call.arg.key, FALSE, "", << >>)))

C24_Witness ==
    /\ call.op = "get_address"
    /\ call.arg = Lit([i \in 1..128 |-> 103])
    /\ ret.val = DagAddress(Sha256(Lit(<< >>)))
====
